---- MODULE Spec2Model ----
(***************************************************************************)
(* Model of package llist (src/llist.go): a doubly linked chain of lnode   *)
(* nodes with a cached head, a cached tail and a value -> nodes index.     *)
(*                                                                         *)
(* A node is a number 1..HeapSize; 0 is the nil pointer.   The node         *)
(* primitive github.com/KarelKubat/lnode is not part of src/; its          *)
(* operations (NodeAppend, NodePrepend, NodeDelete, NodeHead, NodeTail)    *)
(* are modelled from section 6 of the specification.                       *)
(***************************************************************************)
EXTENDS Integers, Sequences, FiniteSets

MaxNodes == 3
NumValues == 2
BuildLen == 5

\* The heap holds as many nodes as the longest run constructs.
HeapSize == IF BuildLen > MaxNodes THEN BuildLen ELSE MaxNodes

Nodes == 1..HeapSize
Values == 1..NumValues
NoNode == 0

VARIABLES cur, allocated, last, pre

vars == <<cur, allocated, last, pre>>

(***************************************************************************)
(* cur is the heap and the LList receiver:                                 *)
(*   head, tail  : LList.head, LList.tail (0 = nil)                        *)
(*   nodes       : LList.nodes, a map; DOMAIN nodes is the set of keys     *)
(*   Value, Prev, Next : the fields of every lnode.Node                    *)
(*   fault       : a nil pointer dereference has stopped the program       *)
(* allocated is the number of nodes constructed so far with lnode.New.     *)
(* last is the call made by the latest step, pre the value of cur before   *)
(* that call.                                                              *)
(***************************************************************************)

\* llist.New: no head, no tail, an empty map.
New ==
  [head |-> NoNode, tail |-> NoNode, nodes |-> [k \in {} |-> <<>>],
   Value |-> [n \in Nodes |-> 0],
   Prev |-> [n \in Nodes |-> NoNode],
   Next |-> [n \in Nodes |-> NoNode],
   fault |-> FALSE]

\* lnode.New(v): a new, unlinked node holding v.
NodeNew(s, n, v) ==
  [s EXCEPT !.Value[n] = v, !.Prev[n] = NoNode, !.Next[n] = NoNode]

\* A nil pointer dereference: the program stops where it is.
Panic(s) == [s EXCEPT !.fault = TRUE]

----
(* The node primitive *)

\* a.Append(n): link n right after a.
NodeAppend(s, a, n) ==
  IF a = NoNode THEN Panic(s)
  ELSE LET nx == s.Next[a]
           P1 == [s.Prev EXCEPT ![n] = a]
           P2 == IF nx # NoNode THEN [P1 EXCEPT ![nx] = n] ELSE P1
           N1 == [s.Next EXCEPT ![n] = nx]
           N2 == [N1 EXCEPT ![a] = n]
       IN [s EXCEPT !.Prev = P2, !.Next = N2]

\* a.Prepend(n): link n right before a.
NodePrepend(s, a, n) ==
  IF a = NoNode THEN Panic(s)
  ELSE LET pv == s.Prev[a]
           N1 == [s.Next EXCEPT ![n] = a]
           N2 == IF pv # NoNode THEN [N1 EXCEPT ![pv] = n] ELSE N1
           P1 == [s.Prev EXCEPT ![n] = pv]
           P2 == [P1 EXCEPT ![a] = n]
       IN [s EXCEPT !.Prev = P2, !.Next = N2]

\* n.Delete(): unlink n, relink its former neighbours to each other; n is
\* chain-less afterwards.
NodeDelete(s, n) ==
  IF n = NoNode THEN Panic(s)
  ELSE LET pv == s.Prev[n]
           nx == s.Next[n]
           N1 == IF pv # NoNode THEN [s.Next EXCEPT ![pv] = nx] ELSE s.Next
           P1 == IF nx # NoNode THEN [s.Prev EXCEPT ![nx] = pv] ELSE s.Prev
       IN [s EXCEPT !.Prev = [P1 EXCEPT ![n] = NoNode],
                    !.Next = [N1 EXCEPT ![n] = NoNode]]

RECURSIVE WalkPrev(_, _, _)
WalkPrev(P, n, fuel) ==
  IF P[n] = NoNode \/ fuel = 0 THEN n ELSE WalkPrev(P, P[n], fuel - 1)

\* n.Head(): walk to the boundary by Prev (0 stands for the fault on nil).
NodeHead(s, n) == IF n = NoNode THEN NoNode ELSE WalkPrev(s.Prev, n, HeapSize)

\* n.Tail(): walk to the boundary by Next.
NodeTail(s, n) == IF n = NoNode THEN NoNode ELSE WalkPrev(s.Next, n, HeapSize)

RECURSIVE WalkNext(_, _, _)
WalkNext(N, n, fuel) ==
  IF n = NoNode \/ fuel = 0 THEN <<>>
  ELSE <<n>> \o WalkNext(N, N[n], fuel - 1)

\* n.VisitByNext: the nodes visited from n on, in order.
VisitByNext(s, n) == WalkNext(s.Next, n, HeapSize)

----
(* The list *)

ListHead(s) == s.head

ListTail(s) == s.tail

\* addCount that puts n in front of the bucket instead of appending it.
addCountInFront(s, n) ==
  LET v == s.Value[n]
      old == IF v \in DOMAIN s.nodes THEN s.nodes[v] ELSE <<>>
  IN [s EXCEPT !.nodes = [k \in DOMAIN s.nodes \cup {v} |->
                            IF k = v THEN <<n>> \o old ELSE s.nodes[k]]]

\* l.addCount(n)
addCount(s, n) ==
  LET v == s.Value[n]
      old == IF v \in DOMAIN s.nodes THEN s.nodes[v] ELSE <<>>
  IN [s EXCEPT !.nodes = [k \in DOMAIN s.nodes \cup {v} |->
                            IF k = v THEN Append(old, n) ELSE s.nodes[k]]]

\* subCount with the comparison of its loop inverted (nd == n).
subCountInverted(s, n) ==
  LET v == s.Value[n]
  IN IF v \notin DOMAIN s.nodes THEN s
     ELSE [s EXCEPT !.nodes[v] = SelectSeq(@, LAMBDA nd : nd = n)]

\* subCount that compares the values of the nodes (nd.Value != n.Value).
subCountByValue(s, n) ==
  LET v == s.Value[n]
  IN IF v \notin DOMAIN s.nodes THEN s
     ELSE [s EXCEPT !.nodes[v] =
             SelectSeq(@, LAMBDA nd : s.Value[nd] # s.Value[n])]

\* l.subCount(n)
subCount(s, n) ==
  LET v == s.Value[n]
  IN IF v \notin DOMAIN s.nodes THEN s
     ELSE [s EXCEPT !.nodes[v] = SelectSeq(@, LAMBDA nd : nd # n)]

\* l.FindNodes(v): nil and the empty slice are both the empty sequence.
FindNodes(s, v) == IF v \in DOMAIN s.nodes THEN s.nodes[v] ELSE <<>>

\* Append without the assignment l.tail = n.
ListAppendTailKept(s, anchor, n) ==
  LET s1 == IF s.head = NoNode
              THEN [s EXCEPT !.head = n, !.tail = n]
            ELSE NodeAppend(s, anchor, n)
  IN IF s1.fault THEN s1 ELSE addCount(s1, n)

\* l.Append(anchor, n)
ListAppend(s, anchor, n) ==
  LET s1 == IF s.head = NoNode
              THEN [s EXCEPT !.head = n, !.tail = n]
            ELSE IF anchor = s.tail
              THEN LET t == NodeAppend(s, s.tail, n)
                   IN IF t.fault THEN t ELSE [t EXCEPT !.tail = n]
            ELSE NodeAppend(s, anchor, n)
  IN IF s1.fault THEN s1 ELSE addCount(s1, n)

\* Prepend without the assignment l.head = n.
ListPrependHeadKept(s, anchor, n) ==
  LET s1 == IF s.head = NoNode /\ s.tail = NoNode
              THEN [s EXCEPT !.head = n, !.tail = n]
            ELSE NodePrepend(s, anchor, n)
  IN IF s1.fault THEN s1 ELSE addCount(s1, n)

\* Prepend that links with l.head.Append(n) where the code has Prepend.
ListPrependLinksAfter(s, anchor, n) ==
  LET s1 == IF s.head = NoNode /\ s.tail = NoNode
              THEN [s EXCEPT !.head = n, !.tail = n]
            ELSE IF anchor = s.head
              THEN LET t == NodeAppend(s, s.head, n)
                   IN IF t.fault THEN t ELSE [t EXCEPT !.head = n]
            ELSE NodePrepend(s, anchor, n)
  IN IF s1.fault THEN s1 ELSE addCount(s1, n)

\* l.Prepend(anchor, n)
ListPrepend(s, anchor, n) ==
  LET s1 == IF s.head = NoNode /\ s.tail = NoNode
              THEN [s EXCEPT !.head = n, !.tail = n]
            ELSE IF anchor = s.head
              THEN LET t == NodePrepend(s, s.head, n)
                   IN IF t.fault THEN t ELSE [t EXCEPT !.head = n]
            ELSE NodePrepend(s, anchor, n)
  IN IF s1.fault THEN s1 ELSE addCount(s1, n)

\* The switch of Delete with Next and Prev exchanged.
DeleteEndsSwapped(s, node) ==
  IF node = s.head THEN [s EXCEPT !.head = s.Prev[node]]
  ELSE IF node = s.tail THEN [s EXCEPT !.tail = s.Next[node]]
  ELSE s

\* The switch of l.Delete(node): the first matching case only.
DeleteEnds(s, node) ==
  IF node = s.head THEN [s EXCEPT !.head = s.Next[node]]
  ELSE IF node = s.tail THEN [s EXCEPT !.tail = s.Prev[node]]
  ELSE s

\* l.Delete(node)
ListDelete(s, node) ==
  LET s1 == NodeDelete(DeleteEnds(s, node), node)
  IN IF s1.fault THEN s1 ELSE subCount(s1, node)

\* SetValue that calls l.Delete(node) where the code calls l.subCount(node).
SetValueViaDelete(s, node, value) ==
  addCount([ListDelete(s, node) EXCEPT !.Value[node] = value], node)

\* l.SetValue(node, value)
SetValue(s, node, value) ==
  addCount([subCount(s, node) EXCEPT !.Value[node] = value], node)

\* FixHead that takes one step back (l.head.Prev) instead of the walk.
FixHeadOneStep(s) ==
  IF s.head = NoNode THEN Panic(s)
  ELSE [s EXCEPT !.head = IF s.Prev[s.head] # NoNode THEN s.Prev[s.head]
                           ELSE s.head]

\* l.FixHead()
FixHead(s) ==
  IF s.head = NoNode THEN Panic(s) ELSE [s EXCEPT !.head = NodeHead(s, s.head)]

\* l.FixTail()
FixTail(s) ==
  IF s.tail = NoNode THEN Panic(s) ELSE [s EXCEPT !.tail = NodeTail(s, s.tail)]

RECURSIVE addCounts(_, _, _)
\* The visitor of FixCounts applied to the nodes q[i], q[i+1], ... in turn.
addCounts(s, q, i) ==
  IF i > Len(q) THEN s ELSE addCounts(addCount(s, q[i]), q, i + 1)

\* FixCounts that does not replace l.nodes by an empty map first.
FixCountsKeepsMap(s) ==
  IF s.head = NoNode THEN s
  ELSE addCounts(s, VisitByNext(s, s.head), 1)

\* l.FixCounts()
FixCounts(s) ==
  IF s.head = NoNode THEN s
  ELSE addCounts([s EXCEPT !.nodes = [k \in {} |-> <<>>]],
                 VisitByNext(s, s.head), 1)

\* nds := l.FindNodes(v); nds[i] = m.  FindNodes returns the slice stored in
\* the map, not a copy, so the write goes to the backing array of l.nodes[v].
OverwriteReturned(s, v, i, m) ==
  IF v \in DOMAIN s.nodes /\ i \in 1..Len(s.nodes[v])
    THEN [s EXCEPT !.nodes[v][i] = m]
    ELSE s

----
(* What a caller can name *)

Range(q) == {q[i] : i \in 1..Len(q)}

\* The chain as the list presents it: the walk from Head() by Next.
Chain(s) == VisitByNext(s, s.head)

ChainSet(s) == Range(Chain(s))

\* The nodes FindNodes returns for some value.
Registered(s) == UNION {Range(s.nodes[v]) : v \in DOMAIN s.nodes}

\* The nodes the list holds for its caller.
Known(s) == ChainSet(s) \cup Registered(s)

\* The anchors a caller passes: a node of the list, or, when the list holds
\* no nodes, a placeholder: nil, Head() or Tail().
Anchors(s) == IF Known(s) = {} THEN {NoNode, s.head, s.tail} ELSE Known(s)

Call(op, anchor, node, value) ==
  [op |-> op, anchor |-> anchor, node |-> node, value |-> value]

Init ==
  /\ cur = New
  /\ allocated = 0
  /\ last = Call("New", NoNode, NoNode, 0)
  /\ pre = New

Step(s, c) ==
  /\ cur' = s
  /\ last' = c
  /\ pre' = cur

\* l.Append(anchor, lnode.New(v))
CallAppend ==
  /\ ~cur.fault
  /\ allocated < MaxNodes
  /\ \E anchor \in Anchors(cur), v \in Values :
       LET n == allocated + 1
       IN /\ Step(ListAppend(NodeNew(cur, n, v), anchor, n),
                  Call("Append", anchor, n, v))
          /\ allocated' = n

\* l.Prepend(anchor, lnode.New(v))
CallPrepend ==
  /\ ~cur.fault
  /\ allocated < MaxNodes
  /\ \E anchor \in Anchors(cur), v \in Values :
       LET n == allocated + 1
       IN /\ Step(ListPrepend(NodeNew(cur, n, v), anchor, n),
                  Call("Prepend", anchor, n, v))
          /\ allocated' = n

\* l.Delete(node) on a node of the list
CallDelete ==
  /\ ~cur.fault
  /\ \E node \in Known(cur) :
       Step(ListDelete(cur, node), Call("Delete", NoNode, node, 0))
  /\ UNCHANGED allocated

\* l.SetValue(node, v) on a node of the list
CallSetValue ==
  /\ ~cur.fault
  /\ \E node \in Known(cur), v \in Values :
       Step(SetValue(cur, node, v), Call("SetValue", NoNode, node, v))
  /\ UNCHANGED allocated

Next == CallAppend \/ CallPrepend \/ CallDelete \/ CallSetValue

Spec == Init /\ [][Next]_vars

----
(* A sequence of two calls made back to back *)

\* l.Append(anchor, n) immediately followed by l.Delete(n), n fresh
CallAppendDelete ==
  /\ ~cur.fault
  /\ allocated < MaxNodes
  /\ \E anchor \in Anchors(cur), v \in Values :
       LET n == allocated + 1
           s1 == ListAppend(NodeNew(cur, n, v), anchor, n)
       IN /\ Step(IF s1.fault THEN s1 ELSE ListDelete(s1, n),
                  Call("AppendDelete", anchor, n, v))
          /\ allocated' = n

NextRoundTrip == Next \/ CallAppendDelete

SpecRoundTrip == Init /\ [][NextRoundTrip]_vars

----
(* Calls on nodes the list does not hold *)

\* The nodes constructed so far that the list does not hold.
Absent(s) == (1..allocated) \ Known(s)

\* l.Delete(node) on a node removed by an earlier Delete
CallDeleteAbsent ==
  /\ ~cur.fault
  /\ \E node \in Absent(cur) :
       Step(ListDelete(cur, node), Call("DeleteAbsent", NoNode, node, 0))
  /\ UNCHANGED allocated

\* l.Delete(lnode.New(v)): a node that was never inserted
CallDeleteNew ==
  /\ ~cur.fault
  /\ allocated < MaxNodes
  /\ \E v \in Values :
       LET n == allocated + 1
       IN /\ Step(ListDelete(NodeNew(cur, n, v), n),
                  Call("DeleteAbsent", NoNode, n, v))
          /\ allocated' = n

NextMisuse == Next \/ CallDeleteAbsent \/ CallDeleteNew

SpecMisuse == Init /\ [][NextMisuse]_vars

----
(* Calls that bypass the list: the node primitive used directly *)

\* The nodes that are part of some chain, or that the list points at.
Linked(s) ==
  {n \in Nodes : \/ n \in Known(s)
                 \/ n = s.head
                 \/ n = s.tail
                 \/ s.Prev[n] # NoNode
                 \/ s.Next[n] # NoNode}

\* anchor.Append(lnode.New(v)), not l.Append
CallNodeAppend ==
  /\ ~cur.fault
  /\ allocated < MaxNodes
  /\ \E anchor \in Linked(cur), v \in Values :
       LET n == allocated + 1
       IN /\ Step(NodeAppend(NodeNew(cur, n, v), anchor, n),
                  Call("NodeAppend", anchor, n, v))
          /\ allocated' = n

\* anchor.Prepend(lnode.New(v)), not l.Prepend
CallNodePrepend ==
  /\ ~cur.fault
  /\ allocated < MaxNodes
  /\ \E anchor \in Linked(cur), v \in Values :
       LET n == allocated + 1
       IN /\ Step(NodePrepend(NodeNew(cur, n, v), anchor, n),
                  Call("NodePrepend", anchor, n, v))
          /\ allocated' = n

\* l.FixHead()
CallFixHead ==
  /\ ~cur.fault
  /\ Step(FixHead(cur), Call("FixHead", NoNode, NoNode, 0))
  /\ UNCHANGED allocated

\* l.FixTail()
CallFixTail ==
  /\ ~cur.fault
  /\ Step(FixTail(cur), Call("FixTail", NoNode, NoNode, 0))
  /\ UNCHANGED allocated

NextBypass ==
  Next \/ CallNodeAppend \/ CallNodePrepend \/ CallFixHead \/ CallFixTail

SpecBypass == Init /\ [][NextBypass]_vars

\* node.Value = v, not l.SetValue
CallNodeSetValue ==
  /\ ~cur.fault
  /\ \E node \in Linked(cur), v \in Values :
       Step([cur EXCEPT !.Value[node] = v],
            Call("NodeSetValue", NoNode, node, v))
  /\ UNCHANGED allocated

\* node.Delete(), not l.Delete
CallNodeDelete ==
  /\ ~cur.fault
  /\ \E node \in Linked(cur) :
       Step(NodeDelete(cur, node), Call("NodeDelete", NoNode, node, 0))
  /\ UNCHANGED allocated

\* l.FixCounts()
CallFixCounts ==
  /\ ~cur.fault
  /\ Step(FixCounts(cur), Call("FixCounts", NoNode, NoNode, 0))
  /\ UNCHANGED allocated

\* A program that builds a list with Append and Prepend, then changes
\* nodes behind the list's back, then calls FixCounts once.
NextRepair ==
  /\ last.op # "FixCounts"
  /\ \/ last.op \in {"New", "Append", "Prepend"} /\ CallAppend
     \/ last.op \in {"New", "Append", "Prepend"} /\ CallPrepend
     \/ CallNodeAppend
     \/ CallNodePrepend
     \/ CallNodeSetValue
     \/ CallNodeDelete
     \/ CallFixCounts

SpecRepair == Init /\ [][NextRepair]_vars

\* The repair calls made on a list that only the list's own methods changed.
NextFix == Next \/ CallFixHead \/ CallFixTail \/ CallFixCounts

SpecFix == Init /\ [][NextFix]_vars

\* A caller overwrites an element of the slice FindNodes(v) returned.
CallOverwrite ==
  /\ ~cur.fault
  /\ \E v \in Values :
       \E i \in 1..Len(FindNodes(cur, v)) :
         \E m \in (1..allocated) \ {FindNodes(cur, v)[i]} :
           Step(OverwriteReturned(cur, v, i, m),
                Call("Overwrite", NoNode, m, v))
  /\ UNCHANGED allocated

\* A program that uses the list, overwrites a returned slice and then only
\* reads the list.
NextAlias == last.op # "Overwrite" /\ (Next \/ CallOverwrite)

SpecAlias == Init /\ [][NextAlias]_vars

\* The loop of mkList: l.Append(l.Tail(), lnode.New(v)), on a new list
CallAppendTail ==
  /\ ~cur.fault
  /\ last.op \in {"New", "AppendTail"}
  /\ allocated < BuildLen
  /\ \E v \in Values :
       LET n == allocated + 1
       IN /\ Step(ListAppend(NodeNew(cur, n, v), ListTail(cur), n),
                  Call("AppendTail", ListTail(cur), n, v))
          /\ allocated' = n

\* The loop of TestEmptyPrepend: l.Prepend(l.Head(), lnode.New(v)), on a new
\* list
CallPrependHead ==
  /\ ~cur.fault
  /\ last.op \in {"New", "PrependHead"}
  /\ allocated < BuildLen
  /\ \E v \in Values :
       LET n == allocated + 1
       IN /\ Step(ListPrepend(NodeNew(cur, n, v), ListHead(cur), n),
                  Call("PrependHead", ListHead(cur), n, v))
          /\ allocated' = n

NextBuild == CallAppendTail \/ CallPrependHead

SpecBuild == Init /\ [][NextBuild]_vars

\* Move to front: l.Delete(n); l.Prepend(l.Head(), n), n a node of the chain
CallMoveToFront ==
  /\ ~cur.fault
  /\ \E n \in ChainSet(cur) :
       LET s1 == ListDelete(cur, n)
       IN Step(IF s1.fault THEN s1 ELSE ListPrepend(s1, ListHead(s1), n),
               Call("MoveToFront", NoNode, n, 0))
  /\ UNCHANGED allocated

\* Move to back: l.Delete(n); l.Append(l.Tail(), n), n a node of the chain
CallMoveToBack ==
  /\ ~cur.fault
  /\ \E n \in ChainSet(cur) :
       LET s1 == ListDelete(cur, n)
       IN Step(IF s1.fault THEN s1 ELSE ListAppend(s1, ListTail(s1), n),
               Call("MoveToBack", NoNode, n, 0))
  /\ UNCHANGED allocated

NextMove == Next \/ CallMoveToFront \/ CallMoveToBack

SpecMove == Init /\ [][NextMove]_vars

----
(* Properties *)

\* The number of times node n occurs in the sequence q.
Count(q, n) == Cardinality({i \in 1..Len(q) : q[i] = n})

\* The first node of the chain that node n is part of, found from the
\* boundary: the node without predecessor whose walk by Next meets n.
TrueFirst(s, n) ==
  CHOOSE f \in Nodes : s.Prev[f] = NoNode /\ n \in Range(VisitByNext(s, f))

\* The last node of the chain that node n is part of.
TrueLast(s, n) ==
  CHOOSE l \in Nodes :
    s.Next[l] = NoNode /\ l \in Range(VisitByNext(s, n))

\* C1: for every value v, FindNodes(v) holds exactly the chain nodes whose
\* value is v, each of them once.
IndexMatchesChain ==
  \A v \in Values :
    /\ \A n \in Nodes : Count(FindNodes(cur, v), n) <= 1
    /\ Range(FindNodes(cur, v)) = {n \in ChainSet(cur) : cur.Value[n] = v}

\* C2: Head() is the first node and Tail() the last node of the chain the
\* nodes of the list form; both are nil when the list holds no nodes.
EndsMatchChain ==
  /\ \A n \in Known(cur) :
       /\ ListHead(cur) = TrueFirst(cur, n)
       /\ ListTail(cur) = TrueLast(cur, n)
  /\ Known(cur) = {} => ListHead(cur) = NoNode /\ ListTail(cur) = NoNode

\* C3: head is absent iff tail is absent iff the list holds no nodes.
AbsentTogether ==
  /\ (ListHead(cur) = NoNode) <=> (ListTail(cur) = NoNode)
  /\ (ListHead(cur) = NoNode) <=> (Known(cur) = {})

\* C4: Delete(node) of a chain node moves head to the successor when node
\* was the head, tail to the predecessor when node was the tail, makes both
\* absent when node was the only node, and keeps both otherwise.
DeleteMovesEnds ==
  (last.op = "Delete" /\ last.node \in ChainSet(pre)) =>
    LET n == last.node
        wasHead == pre.head = n
        wasTail == pre.tail = n
    IN /\ wasHead => ListHead(cur) = pre.Next[n]
       /\ wasTail => ListTail(cur) = pre.Prev[n]
       /\ (wasHead /\ wasTail) =>
            ListHead(cur) = NoNode /\ ListTail(cur) = NoNode
       /\ ~wasHead => ListHead(cur) = pre.head
       /\ ~wasTail => ListTail(cur) = pre.tail

\* C5: on a list that holds no nodes, Append and Prepend of n with any
\* anchor make n the head and the tail and register n.
SeedsEmptyList ==
  (last.op \in {"Append", "Prepend"} /\ Known(pre) = {}) =>
    /\ ~cur.fault
    /\ ListHead(cur) = last.node
    /\ ListTail(cur) = last.node
    /\ Count(FindNodes(cur, last.value), last.node) = 1

\* C6: Append(anchor, n) immediately followed by Delete(n) leaves Head(),
\* Tail() and FindNodes(v) for every v as they were before the Append.
RoundTripRestores ==
  last.op = "AppendDelete" =>
    /\ ~cur.fault
    /\ ListHead(cur) = pre.head
    /\ ListTail(cur) = pre.tail
    /\ \A v \in Values : FindNodes(cur, v) = FindNodes(pre, v)

\* C7: Delete of a node the list does not hold raises no fault and changes
\* neither FindNodes(v) for any v nor Head() nor Tail(); a node removed by
\* Delete is neither the cached head nor the cached tail afterwards.
DeleteAbsentIsNoOp ==
  /\ last.op = "DeleteAbsent" =>
       /\ ~cur.fault
       /\ ListHead(cur) = pre.head
       /\ ListTail(cur) = pre.tail
       /\ \A v \in Values : FindNodes(cur, v) = FindNodes(pre, v)
  /\ last.op = "Delete" =>
       ListHead(cur) # last.node /\ ListTail(cur) # last.node

\* C8: SetValue(node, new) on a registered node with old value # new takes
\* node out of FindNodes(old), puts it once into FindNodes(new) and leaves
\* the bucket membership of every other node as it was.
SetValueMovesNode ==
  (/\ last.op = "SetValue"
   /\ last.node \in Registered(pre)
   /\ pre.Value[last.node] # last.value) =>
    /\ Count(FindNodes(cur, pre.Value[last.node]), last.node) = 0
    /\ Count(FindNodes(cur, last.value), last.node) = 1
    /\ \A m \in Nodes \ {last.node} : \A v \in Values :
         Count(FindNodes(cur, v), m) = Count(FindNodes(pre, v), m)

SetValueMovesNodeWitness ==
  /\ last.op = "SetValue"
  /\ last.node \in Registered(pre)
  /\ pre.Value[last.node] # last.value
  /\ Len(FindNodes(pre, pre.Value[last.node])) >= 2
  /\ Len(FindNodes(pre, last.value)) >= 1

\* C9: SetValue leaves every prev/next link, the chain order, Head() and
\* Tail() as they were.
SetValueKeepsChain ==
  last.op = "SetValue" =>
    /\ cur.Prev = pre.Prev
    /\ cur.Next = pre.Next
    /\ Chain(cur) = Chain(pre)
    /\ ListHead(cur) = pre.head
    /\ ListTail(cur) = pre.tail

SetValueKeepsChainWitness ==
  /\ last.op = "SetValue"
  /\ last.node = pre.head
  /\ pre.Value[last.node] # last.value
  /\ pre.tail # pre.head
  /\ Len(Chain(pre)) = MaxNodes

\* C10: a node spliced with the node primitive before the cached head or
\* after the cached tail leaves Head() and Tail() on the stale node; after
\* FixHead() Head() is the true first node, after FixTail() Tail() the true
\* last node of the chain.
FixEndsRepairs ==
  /\ (last.op = "NodePrepend" /\ last.anchor = pre.head) =>
       /\ ListHead(cur) = pre.head
       /\ ListTail(cur) = pre.tail
       /\ ListHead(cur) # TrueFirst(cur, pre.head)
  /\ (last.op = "NodeAppend" /\ last.anchor = pre.tail) =>
       /\ ListHead(cur) = pre.head
       /\ ListTail(cur) = pre.tail
       /\ ListTail(cur) # TrueLast(cur, pre.tail)
  /\ (last.op = "FixHead" /\ pre.head # NoNode) =>
       /\ ~cur.fault
       /\ ListHead(cur) = TrueFirst(pre, pre.head)
       /\ ListTail(cur) = pre.tail
  /\ (last.op = "FixTail" /\ pre.tail # NoNode) =>
       /\ ~cur.fault
       /\ ListTail(cur) = TrueLast(pre, pre.tail)
       /\ ListHead(cur) = pre.head

FixEndsRepairsWitness ==
  /\ last.op = "FixHead"
  /\ pre.head # NoNode
  /\ pre.Prev[pre.head] # NoNode
  /\ pre.Prev[pre.Prev[pre.head]] # NoNode
  /\ cur.head = pre.Prev[pre.Prev[pre.head]]
  /\ Len(Chain(cur)) = MaxNodes

\* The nodes of the chain that starts at the cached head, found backwards:
\* the nodes whose chain has the cached head as its first node.
HeadChain(s) == {n \in Nodes : s.head # NoNode /\ TrueFirst(s, n) = s.head}

\* C11: after values or chain membership were changed with the node
\* primitive while the cached head is the true first node, FixCounts()
\* rebuilds the index: FindNodes(v) holds exactly the chain nodes whose
\* value is v, each once, and no key of the old index survives otherwise.
FixCountsRebuilds ==
  (last.op = "FixCounts" /\ pre.head # NoNode /\ pre.Prev[pre.head] = NoNode)
    =>
    /\ ~cur.fault
    /\ \A v \in Values : \A n \in Nodes :
         Count(FindNodes(cur, v), n) =
           IF n \in HeadChain(cur) /\ cur.Value[n] = v THEN 1 ELSE 0
    /\ DOMAIN cur.nodes = {cur.Value[n] : n \in HeadChain(cur)}

FixCountsRebuildsWitness ==
  /\ last.op = "FixCounts"
  /\ pre.head # NoNode
  /\ pre.Prev[pre.head] = NoNode
  /\ Len(Chain(pre)) >= 2
  /\ \E n \in ChainSet(pre) : n \notin Registered(pre)
  /\ \E n \in Registered(pre) : n \notin Range(FindNodes(pre, pre.Value[n]))

\* C12: FixHead(), FixTail() and FixCounts() on a list that only its own
\* methods changed raise no fault and leave Head(), Tail() and FindNodes(v)
\* for every v, order included, as they were.
RepairChangesNothing ==
  last.op \in {"FixHead", "FixTail", "FixCounts"} =>
    /\ ~cur.fault
    /\ ListHead(cur) = pre.head
    /\ ListTail(cur) = pre.tail
    /\ \A v \in Values : FindNodes(cur, v) = FindNodes(pre, v)

\* C13: overwriting elements of a sequence FindNodes returned does not
\* change what FindNodes returns afterwards, for any value.
FindNodesIsACopy ==
  last.op = "Overwrite" =>
    \A v \in Values : FindNodes(cur, v) = FindNodes(pre, v)

\* The position of node n in the sequence q (0 when it is not there).
Pos(q, n) == IF \E i \in 1..Len(q) : q[i] = n
               THEN CHOOSE i \in 1..Len(q) : q[i] = n
               ELSE 0

\* The sequence q with n put in right after position i (0: in front).
InsertAt(q, i, n) ==
  [j \in 1..(Len(q) + 1) |->
     IF j <= i THEN q[j] ELSE IF j = i + 1 THEN n ELSE q[j - 1]]

\* C14: on a non-empty list Append(anchor, n) with anchor in the chain puts
\* n right after anchor; Tail() becomes n iff anchor was the tail and is
\* unchanged otherwise; Head() is unchanged.
AppendAfterAnchor ==
  (last.op = "Append" /\ last.anchor \in ChainSet(pre)) =>
    /\ ~cur.fault
    /\ Chain(cur) = InsertAt(Chain(pre), Pos(Chain(pre), last.anchor),
                             last.node)
    /\ cur.Prev[last.node] = last.anchor
    /\ cur.Next[last.anchor] = last.node
    /\ (ListTail(cur) = last.node) <=> (last.anchor = pre.tail)
    /\ last.anchor # pre.tail => ListTail(cur) = pre.tail
    /\ ListHead(cur) = pre.head

AppendAfterAnchorWitness ==
  /\ last.op = "Append"
  /\ last.anchor \in ChainSet(pre)
  /\ last.anchor = pre.tail
  /\ Len(Chain(cur)) = MaxNodes
  /\ ListTail(cur) = last.node

\* C15: on a non-empty list Prepend(anchor, n) with anchor in the chain puts
\* n right before anchor; Head() becomes n iff anchor was the head and is
\* unchanged otherwise; Tail() is unchanged.
PrependBeforeAnchor ==
  (last.op = "Prepend" /\ last.anchor \in ChainSet(pre)) =>
    /\ ~cur.fault
    /\ Chain(cur) = InsertAt(Chain(pre), Pos(Chain(pre), last.anchor) - 1,
                             last.node)
    /\ cur.Next[last.node] = last.anchor
    /\ cur.Prev[last.anchor] = last.node
    /\ (ListHead(cur) = last.node) <=> (last.anchor = pre.head)
    /\ last.anchor # pre.head => ListHead(cur) = pre.head
    /\ ListTail(cur) = pre.tail

PrependBeforeAnchorWitness ==
  /\ last.op = "Prepend"
  /\ last.anchor \in ChainSet(pre)
  /\ last.anchor = pre.head
  /\ Len(Chain(cur)) = MaxNodes
  /\ ListHead(cur) = last.node

\* The sequence q without the node n.
Without(q, n) == SelectSeq(q, LAMBDA x : x # n)

\* C16: when k >= 1 nodes hold value v, Delete(n) of one of them leaves in
\* FindNodes(v) the other k-1 nodes, still holding v and in their former
\* order, and leaves FindNodes(w) alone for every other value w.
DeleteDropsOne ==
  (last.op = "Delete" /\ last.node \in Registered(pre)) =>
    LET v == pre.Value[last.node]
    IN /\ Len(FindNodes(cur, v)) = Len(FindNodes(pre, v)) - 1
       /\ FindNodes(cur, v) = Without(FindNodes(pre, v), last.node)
       /\ \A m \in Range(FindNodes(cur, v)) : cur.Value[m] = v
       /\ \A w \in Values \ {v} : FindNodes(cur, w) = FindNodes(pre, w)

DeleteDropsOneWitness ==
  /\ last.op = "Delete"
  /\ last.node \in Registered(pre)
  /\ Len(FindNodes(pre, pre.Value[last.node])) = MaxNodes
  /\ FindNodes(pre, pre.Value[last.node])[2] = last.node
  /\ Len(FindNodes(cur, pre.Value[last.node])) = MaxNodes - 1

\* The nodes visited from n on by Prev, in order.
VisitByPrev(s, n) == WalkNext(s.Prev, n, HeapSize)

\* C17: on a new list, successive Append(Tail(), x) of x1..xn give the chain
\* x1, ..., xn with Head() = x1 and Tail() = xn; successive
\* Prepend(Head(), x) give the chain xn, ..., x1 with Head() = xn and
\* Tail() = x1.  (The i-th node constructed is node i.)
BuildsInOrder ==
  /\ last.op = "AppendTail" =>
       /\ ~cur.fault
       /\ Chain(cur) = [i \in 1..allocated |-> i]
       /\ VisitByPrev(cur, ListTail(cur)) =
            [i \in 1..allocated |-> allocated + 1 - i]
       /\ ListHead(cur) = 1
       /\ ListTail(cur) = allocated
  /\ last.op = "PrependHead" =>
       /\ ~cur.fault
       /\ Chain(cur) = [i \in 1..allocated |-> allocated + 1 - i]
       /\ VisitByPrev(cur, ListTail(cur)) = [i \in 1..allocated |-> i]
       /\ ListHead(cur) = allocated
       /\ ListTail(cur) = 1

BuildsInOrderWitness ==
  /\ last.op = "PrependHead"
  /\ allocated = BuildLen
  /\ Len(Chain(cur)) = BuildLen
  /\ cur.Value[1] # cur.Value[BuildLen]

\* C18: every bucket is ordered by the time of the latest registration of
\* its nodes, oldest first, whatever their chain position.  Stated call by
\* call: the node a call registers (Append, Prepend, SetValue) becomes the
\* last node of the bucket of its value, and in every bucket the other nodes
\* stay, in the order they had; Delete only takes its node out.
BucketsInRegistrationOrder ==
  ~cur.fault =>
    /\ last.op \in {"Append", "Prepend", "SetValue"} =>
         \A v \in Values :
           FindNodes(cur, v) =
             Without(FindNodes(pre, v), last.node) \o
               (IF cur.Value[last.node] = v THEN <<last.node>> ELSE <<>>)
    /\ last.op = "Delete" =>
         \A v \in Values :
           FindNodes(cur, v) = Without(FindNodes(pre, v), last.node)

BucketsInRegistrationOrderWitness ==
  /\ last.op = "SetValue"
  /\ ~cur.fault
  /\ Len(FindNodes(cur, last.value)) = MaxNodes
  /\ Len(Chain(cur)) = MaxNodes
  /\ FindNodes(pre, last.value) # FindNodes(cur, last.value)
  /\ FindNodes(cur, last.value) # Chain(cur)
  /\ ListHead(cur) = last.node

\* C19: on every non-empty list, a one-node list included, Delete(n) then
\* Prepend(Head(), n) raises no fault and leaves n as Head(); Delete(n) then
\* Append(Tail(), n) raises no fault and leaves n as Tail(); the set of chain
\* nodes and FindNodes(v) as a set are as before.
MoveKeepsList ==
  /\ last.op = "MoveToFront" =>
       /\ ~cur.fault
       /\ ListHead(cur) = last.node
  /\ last.op = "MoveToBack" =>
       /\ ~cur.fault
       /\ ListTail(cur) = last.node
  /\ last.op \in {"MoveToFront", "MoveToBack"} =>
       /\ ChainSet(cur) = ChainSet(pre)
       /\ \A v \in Values :
            Range(FindNodes(cur, v)) = Range(FindNodes(pre, v))

\* Node b comes at or after node a in the chain a is part of.
Reaches(s, a, b) == b \in Range(VisitByNext(s, a))

\* C20: Append, Prepend and Delete keep the other nodes in the chain and in
\* their relative order: a precedes b after the call iff it did before, and
\* no node but the one inserted or removed enters or leaves the chain.
OthersKeepOrder ==
  last.op \in {"Append", "Prepend", "Delete"} =>
    /\ Without(Chain(cur), last.node) = Without(Chain(pre), last.node)
    /\ \A a, b \in Nodes \ {last.node} :
         Reaches(cur, a, b) <=> Reaches(pre, a, b)

OthersKeepOrderWitness ==
  /\ last.op = "Delete"
  /\ Len(Chain(pre)) = MaxNodes
  /\ last.node # pre.head
  /\ last.node # pre.tail
  /\ Chain(cur) = <<pre.head, pre.tail>>

====
